---- MODULE Spec2Model ----
(***************************************************************************)
(* Model of rnr's configuration resolution: src/src/config.rs              *)
(* (parse_arguments and the resolvers it calls) over the argument schema   *)
(* declared in src/src/app.rs (create_app, clap 4 builder API).            *)
(*                                                                         *)
(* Encoding.  Option<T> is a sequence: <<>> is None, <<v>> is Some(v).     *)
(* A Result is a record whose kind is "Ok", "Err" or "Panic" (an unwinding *)
(* panic is an outcome of the build, not a returned Err).                  *)
(*                                                                         *)
(* The argument table (clap's ArgMatches) is modelled by what the schema   *)
(* of create_app makes it hold:                                            *)
(*   - an argument declared with ArgAction::SetTrue carries the implicit   *)
(*     default value false, so it always has a value in the table of the   *)
(*     command that declares it and contains_id answers true for it        *)
(*     whether or not the flag was typed;                                  *)
(*   - an argument declared without an action and without num_args gets    *)
(*     the action Set and no default: it has a value only when supplied;   *)
(*   - default_value("auto") / default_value("1") give color and           *)
(*     replace-limit a value when they are not supplied;                   *)
(*   - a lookup of an id the (sub)command does not declare panics when     *)
(*     the build has debug assertions and answers "absent" otherwise;      *)
(*   - get_one::<T> on an argument that has a value stored with another    *)
(*     type than T panics in every build.                                  *)
(***************************************************************************)
EXTENDS Integers, Sequences, FiniteSets, TLC

VARIABLES cmdline, build, pc, matches, command, dump, printer, stdout_probe,
          ansi_enable, run_mode, replace_mode, config, result, steps

vars == <<cmdline, build, pc, matches, command, dump, printer, stdout_probe,
          ansi_enable, run_mode, replace_mode, config, result, steps>>

(***************************************************************************)
(* Bounds of the model.                                                    *)
(***************************************************************************)
MaxDepthArg == 1
MaxLimitArg == 2

None == <<>>
Some(v) == <<v>>

(***************************************************************************)
(* src/src/app.rs: sub-command names and the argument schema.              *)
(***************************************************************************)
FROM_FILE_SUBCOMMAND == "from-file"
TO_ASCII_SUBCOMMAND == "to-ascii"

CommonArgs == {"dry-run", "force", "backup", "silent", "color", "dump", "no-dump"}
PathArgs == {"PATH(S)", "include-dirs", "recursive", "max-depth", "hidden"}
RootArgs == {"EXPRESSION", "REPLACEMENT", "replace-limit"} \cup CommonArgs \cup PathArgs
FromFileArgs == CommonArgs \cup {"DUMPFILE", "undo"}
ToAsciiArgs == CommonArgs \cup PathArgs

\* Arguments declared with .action(ArgAction::SetTrue): implicit default false.
SetTrueArgs == {"dry-run", "force", "dump", "no-dump", "recursive"}
\* Arguments declared with long/short only: action Set, one value, no default.
ValueFlagArgs == {"backup", "silent", "include-dirs", "hidden", "undo"}
StringArgs == {"color", "EXPRESSION", "REPLACEMENT", "DUMPFILE"}
NumberArgs == {"replace-limit", "max-depth"}

\* Type of the value the declared value_parser stores.
StoredType(id) ==
    CASE id = "max-depth" -> "i64"
      [] id = "replace-limit" -> "usize"
      [] id \in SetTrueArgs -> "bool"
      [] OTHER -> "String"

ColorDefault == "auto"
ReplaceLimitDefault == 1

\* Ids the command selected by an optional sub-command name declares (the
\* empty name stands for the root command, as in AppCommand::from_str).
ArgsOf(sub) ==
    IF sub = None \/ sub = Some("") THEN RootArgs
    ELSE IF sub[1] = FROM_FILE_SUBCOMMAND THEN FromFileArgs
    ELSE IF sub[1] = TO_ASCII_SUBCOMMAND THEN ToAsciiArgs
    ELSE {}

\* The table clap hands back for the selected (sub)command: the supplied
\* values, then the defaults of the arguments that were not supplied.
get_matches(cl) ==
    LET valid == ArgsOf(cl.sub) IN
    [ valid   |-> valid,
      present |-> valid \cap
                    (cl.flags \cup SetTrueArgs
                       \cup {"color", "replace-limit"}
                       \cup {id \in StringArgs : cl.strs[id] # None}
                       \cup {id \in NumberArgs : cl.nums[id] # None}
                       \cup (IF cl.paths # <<>> THEN {"PATH(S)"} ELSE {})),
      strs    |-> [id \in StringArgs |->
                     IF id \notin valid THEN None
                     ELSE IF cl.strs[id] # None THEN cl.strs[id]
                     ELSE IF id = "color" THEN Some(ColorDefault)
                     ELSE None],
      nums    |-> [id \in NumberArgs |->
                     IF id \notin valid THEN None
                     ELSE IF cl.nums[id] # None THEN cl.nums[id]
                     ELSE IF id = "replace-limit" THEN Some(ReplaceLimitDefault)
                     ELSE None],
      paths   |-> IF "PATH(S)" \in valid THEN cl.paths ELSE <<>> ]

(***************************************************************************)
(* ArgMatches accessors as config.rs uses them.                            *)
(***************************************************************************)
\* An id the command does not declare: panic under debug assertions.
UnknownIdPanics(id) == id \notin matches.valid /\ build.debug_assertions

contains_id(id) == id \in matches.present

\* get_one::<String>(id)
get_one_String(id) ==
    IF UnknownIdPanics(id) THEN [kind |-> "Panic", v |-> None]
    ELSE IF id \in matches.present /\ StoredType(id) # "String"
         THEN [kind |-> "Panic", v |-> None]
    ELSE [kind |-> "Ok", v |-> matches.strs[id]]

\* get_one::<usize>(id)
get_one_usize(id) ==
    IF UnknownIdPanics(id) THEN [kind |-> "Panic", v |-> None]
    ELSE IF id \in matches.present /\ StoredType(id) # "usize"
         THEN [kind |-> "Panic", v |-> None]
    ELSE [kind |-> "Ok", v |-> matches.nums[id]]

unwrap_or(opt, d) == IF opt = None THEN d ELSE opt[1]

(***************************************************************************)
(* External collaborators, by what they return.                            *)
(***************************************************************************)
\* Regex::new: the expressions the regex crate rejects, with its diagnostic.
\* A compiled pattern is represented by its source text.
Expressions == {"foo", "("}
Regex_new(s) ==
    IF s = "(" THEN [ok |-> FALSE, err |-> "regex parse error: unclosed group"]
    ELSE [ok |-> TRUE, re |-> s]

\* Printer::silent(), Printer::color(), Printer::no_color()
Printer_silent == "silent"
Printer_color == "color"
Printer_no_color == "no_color"

(***************************************************************************)
(* AppCommand::from_str                                                    *)
(***************************************************************************)
\* Variant: an unrecognised name falls back to the root command.
from_str_fallback_root(name) ==
    CASE name = FROM_FILE_SUBCOMMAND -> [kind |-> "Ok", v |-> "FromFile"]
      [] name = TO_ASCII_SUBCOMMAND -> [kind |-> "Ok", v |-> "ToASCII"]
      [] OTHER -> [kind |-> "Ok", v |-> "Root"]

from_str(name) ==
    CASE name = "" -> [kind |-> "Ok", v |-> "Root"]
      [] name = FROM_FILE_SUBCOMMAND -> [kind |-> "Ok", v |-> "FromFile"]
      [] name = TO_ASCII_SUBCOMMAND -> [kind |-> "Ok", v |-> "ToASCII"]
      [] OTHER -> [kind |-> "Err", error |-> "UnknownCommand", name |-> name]

\* match matches.subcommand() { Some((name, _)) => from_str(name)?, None => Root }
select_command(sub) ==
    IF sub = None THEN [kind |-> "Ok", v |-> "Root"] ELSE from_str(sub[1])

(***************************************************************************)
(* The dump default of parse_arguments.                                    *)
(***************************************************************************)
resolve_dump ==
    IF contains_id("force") THEN ~contains_id("no-dump") ELSE contains_id("dump")

(***************************************************************************)
(* detect_output_color and the printer choice of parse_arguments.          *)
(*   tty: the answer of stdout().is_terminal()                             *)
(*   ansi_ok: enable_ansi_support() returned Ok (only asked on windows)    *)
(***************************************************************************)
\* Variant: the outcome of enable_ansi_support is ignored.
detect_output_color_ignoring_enable(tty, ansi_ok) ==
    IF tty THEN Printer_color ELSE Printer_no_color

detect_output_color(tty, ansi_ok) ==
    IF tty
    THEN IF build.windows
         THEN IF ansi_ok THEN Printer_color ELSE Printer_no_color
         ELSE Printer_color
    ELSE Printer_no_color

\* TRUE when the printer choice reaches detect_output_color.
printer_detects ==
    /\ ~contains_id("silent")
    /\ unwrap_or(get_one_String("color").v, "auto") \notin {"always", "never"}

resolve_printer(tty, ansi_ok) ==
    IF contains_id("silent") THEN Printer_silent
    ELSE LET c == unwrap_or(get_one_String("color").v, "auto") IN
         CASE c = "always" -> Printer_color
           [] c = "never" -> Printer_no_color
           [] OTHER -> detect_output_color(tty, ansi_ok)

(***************************************************************************)
(* ArgumentParser::parse_run_mode                                          *)
(***************************************************************************)
\* The FromFile branch: DUMPFILE and undo.
from_file_run_mode ==
    LET path == get_one_String("DUMPFILE") IN
    IF path.kind = "Panic" \/ UnknownIdPanics("undo")
    THEN [kind |-> "Panic"]
    ELSE [kind |-> "Ok",
          v |-> [mode |-> "FromFile",
                 path |-> unwrap_or(path.v, ""),
                 undo |-> contains_id("undo")]]

\* The max_depth of the Recursive branch.
read_max_depth ==
    IF UnknownIdPanics("max-depth") THEN [kind |-> "Panic", v |-> None]
    ELSE IF contains_id("max-depth")
    THEN LET d == get_one_usize("max-depth") IN
         [kind |-> d.kind, v |-> IF d.kind = "Ok" THEN Some(unwrap_or(d.v, 0)) ELSE None]
    ELSE [kind |-> "Ok", v |-> None]

\* The PATH(S) branch: Recursive or Simple.
paths_run_mode ==
    IF UnknownIdPanics("PATH(S)") \/ UnknownIdPanics("recursive")
    THEN [kind |-> "Panic"]
    ELSE LET input_paths == matches.paths IN
         IF contains_id("recursive")
         THEN LET depth == read_max_depth IN
              IF depth.kind = "Panic" \/ UnknownIdPanics("hidden")
              THEN [kind |-> "Panic"]
              ELSE [kind |-> "Ok",
                    v |-> [mode |-> "Recursive",
                           paths |-> input_paths,
                           max_depth |-> depth.v,
                           hidden |-> contains_id("hidden")]]
         ELSE [kind |-> "Ok", v |-> [mode |-> "Simple", paths |-> input_paths]]

\* Variant: the early return tests the wrong command variant.
parse_run_mode_wrong_variant ==
    IF command[1] = "ToASCII" THEN from_file_run_mode ELSE paths_run_mode

parse_run_mode ==
    IF command[1] = "FromFile" THEN from_file_run_mode ELSE paths_run_mode

(***************************************************************************)
(* ArgumentParser::parse_replace_mode                                      *)
(***************************************************************************)
\* Variant: the fallback of the limit repeats the declared default.
read_replace_limit_fallback_one ==
    LET l == get_one_usize("replace-limit") IN
    [kind |-> l.kind, v |-> unwrap_or(l.v, 1)]

\* Variant: a pattern that does not compile is passed on as it is.
compile_expression_unchecked(text) ==
    [kind |-> "Ok", re |-> text]

\* match Regex::new(...) { Ok(expr) => expr, Err(err) => return Err(format!(...)) }
\* The message is styled with the printer resolved before.
compile_expression(text) ==
    LET compiled == Regex_new(text) IN
    IF compiled.ok THEN [kind |-> "Ok", re |-> compiled.re]
    ELSE [kind |-> "Err", error |-> "InvalidPattern",
          diagnostic |-> compiled.err, styled_by |-> printer[1]]

\* let limit = *self.matches.get_one::<usize>("replace-limit").unwrap_or(&0);
read_replace_limit ==
    LET l == get_one_usize("replace-limit") IN
    [kind |-> l.kind, v |-> unwrap_or(l.v, 0)]

parse_replace_mode ==
    IF command[1] = "ToASCII" THEN [kind |-> "Ok", v |-> [mode |-> "ToASCII"]]
    ELSE LET expr == get_one_String("EXPRESSION") IN
         IF expr.kind = "Panic" THEN [kind |-> "Panic"]
         ELSE LET compiled == compile_expression(unwrap_or(expr.v, "")) IN
              IF compiled.kind = "Err" THEN compiled
              ELSE LET repl == get_one_String("REPLACEMENT")
                       limit == read_replace_limit IN
                   IF repl.kind = "Panic" \/ limit.kind = "Panic"
                   THEN [kind |-> "Panic"]
                   ELSE [kind |-> "Ok",
                         v |-> [mode |-> "RegExp",
                                expression |-> compiled.re,
                                replacement |-> unwrap_or(repl.v, ""),
                                limit |-> limit.v]]

(***************************************************************************)
(* Command lines the argument surface accepts.  clap rejects, before       *)
(* parse_arguments sees a table: an id the (sub)command does not declare,  *)
(* --dump with --no-dump, --max-depth or --hidden without --recursive, a   *)
(* color outside the three literals, a missing required positional.        *)
(* --dry-run is declared but never read by config.rs and is left out.      *)
(***************************************************************************)
ColorValues == {"always", "auto", "never"}
PathLists == {<<"a">>, <<"b", "a">>}
Replacements == {"bar"}
DumpFiles == {"ops.log"}

StrChoices(id, valid) ==
    IF id \notin valid THEN {None}
    ELSE CASE id = "color" -> {None} \cup {Some(c) : c \in ColorValues}
           [] id = "EXPRESSION" -> {Some(e) : e \in Expressions}
           [] id = "REPLACEMENT" -> {Some(r) : r \in Replacements}
           [] OTHER -> {Some(f) : f \in DumpFiles}

NumChoices(id, valid) ==
    IF id \notin valid THEN {None}
    ELSE IF id = "replace-limit"
         THEN {None} \cup {Some(n) : n \in 0..MaxLimitArg}
         ELSE {None} \cup {Some(n) : n \in 0..MaxDepthArg}

\* Command lines for the command sub selects, with the presence-only
\* options drawn from flag_ids.
Cmdlines(sub, flag_ids) ==
    LET valid == ArgsOf(sub)
        F == {f \in SUBSET (valid \cap flag_ids) :
                /\ ~({"dump", "no-dump"} \subseteq f)
                /\ ("hidden" \in f => "recursive" \in f)}
        S == {[id \in StringArgs |->
                 CASE id = "color" -> c
                   [] id = "EXPRESSION" -> e
                   [] id = "REPLACEMENT" -> r
                   [] OTHER -> d] :
                 c \in StrChoices("color", valid), e \in StrChoices("EXPRESSION", valid),
                 r \in StrChoices("REPLACEMENT", valid), d \in StrChoices("DUMPFILE", valid)}
        N == {[id \in NumberArgs |-> IF id = "replace-limit" THEN l ELSE m] :
                 l \in NumChoices("replace-limit", valid),
                 m \in NumChoices("max-depth", valid)}
        P == IF "PATH(S)" \in valid THEN PathLists ELSE {<<>>}
    IN {cl \in [sub : {sub}, flags : F, strs : S, nums : N, paths : P] :
            cl.nums["max-depth"] # None => "recursive" \in cl.flags}

FlagIds == (SetTrueArgs \cup ValueFlagArgs) \ {"dry-run"}

RegisteredSubcommands == {None, Some(FROM_FILE_SUBCOMMAND), Some(TO_ASCII_SUBCOMMAND)}

Builds == [debug_assertions : BOOLEAN, windows : BOOLEAN]

Idle ==
    /\ pc = "select"
    /\ matches = None
    /\ command = None
    /\ dump = None
    /\ printer = None
    /\ stdout_probe = None
    /\ ansi_enable = None
    /\ run_mode = None
    /\ replace_mode = None
    /\ config = None
    /\ result = None
    /\ steps = <<>>

Init ==
    /\ cmdline \in UNION {Cmdlines(sub, FlagIds) : sub \in RegisteredSubcommands}
    /\ build \in Builds
    /\ Idle

(***************************************************************************)
(* parse_arguments, one action per step.                                   *)
(***************************************************************************)
\* Variant: the outcome is recorded but assembly is not left.
Return_without_leaving(r) ==
    /\ result' = Some(r)
    /\ pc' = pc

\* return / the ? operator / the final Ok(...): parse_arguments ends with r.
Return(r) ==
    /\ result' = Some(r)
    /\ pc' = "done"

\* let (command, matches) = match matches.subcommand() { ... }
SelectCommand ==
    /\ pc = "select"
    /\ steps' = Append(steps, "select")
    /\ LET r == select_command(cmdline.sub) IN
         IF r.kind = "Ok"
         THEN /\ command' = Some(r.v)
              /\ matches' = get_matches(cmdline)
              /\ pc' = "dump"
              /\ UNCHANGED result
         ELSE /\ Return(r)
              /\ UNCHANGED <<command, matches>>
    /\ UNCHANGED <<cmdline, build, dump, printer, stdout_probe, ansi_enable,
                   run_mode, replace_mode, config>>

\* let dump = if matches.contains_id("force") { ... }
ResolveDump ==
    /\ pc = "dump"
    /\ steps' = Append(steps, "dump")
    /\ IF \E id \in {"force", "no-dump", "dump"} : UnknownIdPanics(id)
       THEN Return([kind |-> "Panic"]) /\ UNCHANGED dump
       ELSE dump' = Some(resolve_dump) /\ pc' = "printer" /\ UNCHANGED result
    /\ UNCHANGED <<cmdline, build, matches, command, printer, stdout_probe,
                   ansi_enable, run_mode, replace_mode, config>>

\* let printer = if matches.contains_id("silent") { ... }
\* detect_output_color asks the terminal only when it is reached, and
\* enable_ansi_support only on windows with a terminal.
ResolvePrinter ==
    /\ pc = "printer"
    /\ steps' = Append(steps, "printer")
    /\ IF UnknownIdPanics("silent") \/ get_one_String("color").kind = "Panic"
       THEN /\ Return([kind |-> "Panic"])
            /\ UNCHANGED <<printer, stdout_probe, ansi_enable>>
       ELSE /\ pc' = "run_mode"
            /\ UNCHANGED result
            /\ IF printer_detects
               THEN \E tty \in BOOLEAN, ansi_ok \in BOOLEAN :
                      /\ (~(tty /\ build.windows) => ansi_ok)
                      /\ stdout_probe' = Some(tty)
                      /\ ansi_enable' = IF tty /\ build.windows THEN Some(ansi_ok) ELSE None
                      /\ printer' = Some(resolve_printer(tty, ansi_ok))
               ELSE /\ printer' = Some(resolve_printer(FALSE, FALSE))
                    /\ UNCHANGED <<stdout_probe, ansi_enable>>
    /\ UNCHANGED <<cmdline, build, matches, command, dump, run_mode, replace_mode, config>>

\* let run_mode = argument_parser.parse_run_mode()?;
ParseRunMode ==
    /\ pc = "run_mode"
    /\ steps' = Append(steps, "run_mode")
    /\ LET r == parse_run_mode IN
         IF r.kind = "Ok"
         THEN run_mode' = Some(r.v) /\ pc' = "replace_mode" /\ UNCHANGED result
         ELSE Return(r) /\ UNCHANGED run_mode
    /\ UNCHANGED <<cmdline, build, matches, command, dump, printer, stdout_probe,
                   ansi_enable, replace_mode, config>>

\* let replace_mode = argument_parser.parse_replace_mode()?;
ParseReplaceMode ==
    /\ pc = "replace_mode"
    /\ steps' = Append(steps, "replace_mode")
    /\ LET r == parse_replace_mode IN
         IF r.kind = "Ok"
         THEN replace_mode' = Some(r.v) /\ pc' = "construct" /\ UNCHANGED result
         ELSE Return(r) /\ UNCHANGED replace_mode
    /\ UNCHANGED <<cmdline, build, matches, command, dump, printer, stdout_probe,
                   ansi_enable, run_mode, config>>

\* Ok(Config { force: ..., backup: ..., dirs: ..., dump, run_mode, replace_mode, printer })
build_config ==
    [force |-> contains_id("force"),
     backup |-> contains_id("backup"),
     dirs |-> contains_id("include-dirs"),
     dump |-> dump[1],
     run_mode |-> run_mode[1],
     replace_mode |-> replace_mode[1],
     printer |-> printer[1]]

Construct ==
    /\ pc = "construct"
    /\ steps' = Append(steps, "construct")
    /\ IF \E id \in {"force", "backup", "include-dirs"} : UnknownIdPanics(id)
       THEN Return([kind |-> "Panic"]) /\ UNCHANGED config
       ELSE /\ config' = Some(build_config)
            /\ Return([kind |-> "Ok"])
    /\ UNCHANGED <<cmdline, build, matches, command, dump, printer, stdout_probe,
                   ansi_enable, run_mode, replace_mode>>

Next ==
    \/ SelectCommand
    \/ ResolveDump
    \/ ResolvePrinter
    \/ ParseRunMode
    \/ ParseReplaceMode
    \/ Construct

Spec == Init /\ [][Next]_vars

(***************************************************************************)
(* The command selector over arbitrary names (the unit tests of config.rs  *)
(* call AppCommand::from_str with names clap never registers), followed by *)
(* the rest of parse_arguments on a few command lines.                     *)
(***************************************************************************)
SubcommandNames ==
    {a \o b \o c : a \in {"", "from", "to", "this"},
                   b \in {"", "-", "_"},
                   c \in {"", "file", "ascii", "command-does-not-exists"}}

AnySubcommands == {None} \cup {Some(n) : n \in SubcommandNames}

InitNames ==
    /\ cmdline \in UNION {Cmdlines(sub, {"silent", "recursive"}) : sub \in AnySubcommands}
    /\ build \in Builds
    /\ Idle

SpecNames == InitNames /\ [][Next]_vars

(***************************************************************************)
(* Properties.                                                             *)
(***************************************************************************)
Ran(step) == \E i \in 1..Len(steps) : steps[i] = step
Typed(id) == id \in cmdline.flags

\* C1: for every combination of the force, dump and no-dump flags, the dump
\* field of the assembled Configuration is true exactly when (force is typed
\* and no-dump is not) or (force is not typed and dump is); force alone gives
\* dump = true and no flag gives dump = false.
C1_DumpFollowsFlags ==
    config # None =>
        (config[1].dump <=>
            \/ (Typed("force") /\ ~Typed("no-dump"))
            \/ (~Typed("force") /\ Typed("dump")))

\* C2: resolving the run mode yields the FromFile variant if and only if the
\* command is FromFile: once the run-mode step has returned a value, it is a
\* FromFile exactly under the FromFile command, and under FromFile the step
\* always returns one.
C2_FromFileIffCommand ==
    /\ run_mode # None => (run_mode[1].mode = "FromFile" <=> command = Some("FromFile"))
    /\ (Ran("run_mode") /\ command = Some("FromFile")) => run_mode # None

C2_Witness ==
    /\ run_mode # None
    /\ run_mode[1].mode = "FromFile"
    /\ run_mode[1].undo
    /\ command = Some("FromFile")

\* C3: when the command is not FromFile, the run mode is Recursive{paths,
\* max_depth, hidden} if the recursive flag was typed and Simple{paths} if it
\* was not; max_depth is None without max-depth and Some(n) with the typed n,
\* hidden is whether hidden was typed, paths is PATH(S) in its order.
C3_RunModeFollowsRecursive ==
    (Ran("run_mode") /\ command # Some("FromFile")) =>
        run_mode = Some(IF Typed("recursive")
                        THEN [mode |-> "Recursive",
                              paths |-> cmdline.paths,
                              max_depth |-> cmdline.nums["max-depth"],
                              hidden |-> Typed("hidden")]
                        ELSE [mode |-> "Simple", paths |-> cmdline.paths])

\* C4: the command selector maps the empty name to Root, "from-file" to
\* FromFile and "to-ascii" to ToASCII, every other name to an error carrying
\* that name and no command; an absent sub-command selects Root.
C4_SelectorTable ==
    Ran("select") =>
        LET sub == cmdline.sub IN
        IF sub = None \/ sub = Some("") THEN command = Some("Root")
        ELSE IF sub = Some("from-file") THEN command = Some("FromFile")
        ELSE IF sub = Some("to-ascii") THEN command = Some("ToASCII")
        ELSE /\ command = None
             /\ result = Some([kind |-> "Err", error |-> "UnknownCommand", name |-> sub[1]])

C4_Witness ==
    /\ cmdline.sub = Some("this-command-does-not-exists")
    /\ command = None
    /\ result # None
    /\ result[1].kind = "Err"
    /\ result[1].name = "this-command-does-not-exists"

\* C5: when the command requires a pattern and the EXPRESSION does not
\* compile, replace-mode resolution returns an invalid-pattern error carrying
\* the compiler's diagnostic and no RegExp, and assembly ends with that error
\* and no Configuration; a Configuration exists only after every step
\* succeeded and then holds the resolved parts.
C5_BadPatternAborts ==
    /\ (Ran("replace_mode") /\ command # Some("ToASCII")
           /\ cmdline.strs["EXPRESSION"] = Some("(")) =>
          /\ result # None
          /\ result[1].kind = "Err"
          /\ result[1].error = "InvalidPattern"
          /\ result[1].diagnostic = "regex parse error: unclosed group"
          /\ replace_mode = None
          /\ config = None
          /\ pc = "done"
    /\ config # None =>
          /\ result = Some([kind |-> "Ok"])
          /\ run_mode = Some(config[1].run_mode)
          /\ replace_mode = Some(config[1].replace_mode)
          /\ dump = Some(config[1].dump)
          /\ printer = Some(config[1].printer)
    /\ (result # None /\ result[1].kind # "Ok") => config = None

C5_Witness ==
    /\ Ran("replace_mode")
    /\ command = Some("Root")
    /\ cmdline.strs["EXPRESSION"] = Some("(")
    /\ result # None
    /\ result[1].kind = "Err"
    /\ config = None

\* C6: replace-mode resolution yields ToASCII if and only if the command is
\* ToASCII; under ToASCII it cannot fail, and under Root or FromFile the
\* result is either a RegExp or an error, never ToASCII.
C6_ToASCIIIffCommand ==
    Ran("replace_mode") =>
        IF command = Some("ToASCII")
        THEN replace_mode = Some([mode |-> "ToASCII"])
        ELSE \/ (replace_mode # None /\ replace_mode[1].mode = "RegExp")
             \/ (replace_mode = None /\ result # None /\ result[1].kind = "Err")

C8_OutputPolicy ==
    printer # None =>
        IF Typed("silent")
        THEN printer = Some("silent") /\ stdout_probe = None /\ ansi_enable = None
        ELSE IF cmdline.strs["color"] = Some("always") THEN printer = Some("color")
        ELSE IF cmdline.strs["color"] = Some("never") THEN printer = Some("no_color")
        ELSE /\ stdout_probe # None
             /\ printer = IF stdout_probe[1] /\ (build.windows => ansi_enable = Some(TRUE))
                          THEN Some("color")
                          ELSE Some("no_color")

C8_Witness ==
    /\ printer = Some("no_color")
    /\ ~Typed("silent")
    /\ cmdline.strs["color"] = None
    /\ build.windows
    /\ stdout_probe = Some(TRUE)
    /\ ansi_enable = Some(FALSE)

\* C9: the force, backup and include_dirs fields of the assembled
\* Configuration are each true exactly when the corresponding flag was
\* typed; with only EXPRESSION, REPLACEMENT and one path the Configuration
\* has force = false, dump = false, Simple with that path and limit 1.
C9_FlatFlagsFollowFlags ==
    config # None =>
        /\ config[1].force <=> Typed("force")
        /\ config[1].backup <=> Typed("backup")
        /\ config[1].dirs <=> Typed("include-dirs")
        /\ (cmdline.sub = None /\ cmdline.flags = {}
               /\ cmdline.nums["replace-limit"] = None) =>
              /\ ~config[1].force
              /\ ~config[1].dump
              /\ config[1].run_mode = [mode |-> "Simple", paths |-> cmdline.paths]
              /\ config[1].replace_mode.limit = 1

IsPrefix(a, b) == Len(a) <= Len(b) /\ \A i \in 1..Len(a) : a[i] = b[i]
Failed == result # None /\ result[1].kind # "Ok"

\* C10 (as claimed): the steps run in the order select command, run mode,
\* replace mode, dump policy, output policy, flat flags and construction; a
\* failing step aborts before any later step, the output-policy step never
\* runs in a run where command selection or pattern compilation fails, and
\* it runs at most once.
C10_ClaimedOrder ==
    /\ IsPrefix(steps, <<"select", "run_mode", "replace_mode", "dump", "printer", "construct">>)
    /\ (result # None /\ result[1].kind = "Err") => ~Ran("printer")
    /\ Failed => pc = "done"

\* C10 (amended): the steps run in the order select command, dump policy,
\* output policy, run mode, replace mode, flat flags and construction; a
\* failing step aborts before any later step; the output-policy step never
\* runs in a run where command selection fails, has already run (once) when
\* pattern compilation fails, and runs at most once per run.
C10_CodeOrder ==
    /\ IsPrefix(steps, <<"select", "dump", "printer", "run_mode", "replace_mode", "construct">>)
    /\ Failed => (pc = "done" /\ config = None)
    /\ (Failed /\ steps[Len(steps)] = "select") =>
          /\ ~Ran("printer")
          /\ printer = None /\ stdout_probe = None /\ ansi_enable = None
    /\ (Failed /\ result[1].kind = "Err" /\ steps[Len(steps)] = "replace_mode") =>
          /\ Ran("printer")
          /\ printer # None
          /\ result[1].styled_by = printer[1]
    /\ Cardinality({i \in 1..Len(steps) : steps[i] = "printer"}) <= 1
    /\ pc = "done" => result # None

C10_Witness ==
    /\ Failed
    /\ result[1].kind = "Err"
    /\ steps = <<"select", "dump", "printer", "run_mode", "replace_mode">>
    /\ stdout_probe # None

====
